---------------------------- MODULE Spec2Model ----------------------------
(***************************************************************************)
(* A model of real-vol (src/src/main.rs): an axum server whose             *)
(* /rolling_volatility handler fetches daily candles from the Bybit kline  *)
(* endpoint, sweeps a 7-candle window over them and returns the Parkinson  *)
(* volatility of every window as a JSON series.                            *)
(*                                                                         *)
(* f64 values are modelled as a binary floating-point format of reduced    *)
(* precision: a finite value is an integer number of 2^-FracBits units     *)
(* that carries at most MantBits significant bits, every operation rounds  *)
(* its exact result to nearest (ties to even), and NaN and the infinities  *)
(* follow IEEE 754.                                                        *)
(***************************************************************************)
EXTENDS Integers, Sequences, FiniteSets, TLC

\* ------------------------------------------------------------------ bounds
\* Significant bits of a model float (f64 has 53).
MantBits == 6
\* Fractional bits of a model float: the smallest positive value is 2^-FracBits.
FracBits == 10
\* Concurrent requests in flight.
NReq == 2
\* Longest candle list an upstream response carries.
MaxLen == 9
\* Longest window handed to the estimator on its own.
MaxWin == 3
\* Largest millisecond timestamp chrono accepts, scaled down.
MaxMillis == 100000

\* --------------------------------------------------------------- constants
\* data.windows(7)
WINDOW == 7

Scale == 2 ^ FracBits
\* Precision the logarithm is evaluated at before its result is rounded.
LnOne == 2 ^ 14

\* ------------------------------------------------------------ f64 arithmetic
Abs(n) == IF n < 0 THEN -n ELSE n

Sign(n) == IF n < 0 THEN -1 ELSE 1

\* a / b rounded to the nearest integer, ties to even (b > 0).
RoundDiv(a, b) ==
    IF 2 * (a % b) < b THEN a \div b
    ELSE IF 2 * (a % b) > b THEN a \div b + 1
    ELSE IF (a \div b) % 2 = 0 THEN a \div b ELSE a \div b + 1

RECURSIVE BitLen(_)
BitLen(n) == IF n <= 0 THEN 0 ELSE 1 + BitLen(n \div 2)

\* n rounded to MantBits significant bits.
RoundBits(n, b) ==
    IF b <= MantBits THEN n
    ELSE Sign(n) * RoundDiv(Abs(n), 2 ^ (b - MantBits)) * 2 ^ (b - MantBits)

RoundSig(n) == RoundBits(n, BitLen(Abs(n)))

NaN == [cls |-> "nan", v |-> 0]

PosInf == [cls |-> "inf", v |-> 0]

NegInf == [cls |-> "ninf", v |-> 0]

Fin(n) == [cls |-> "fin", v |-> RoundSig(n)]

\* The f64 nearest to num / den.
FromRatio(num, den) == Fin(RoundDiv(num * Scale, den))

IsFinite(a) == a.cls = "fin"

IsNaN(a) == a.cls = "nan"

\* IEEE comparison: NaN equals nothing, itself included.
FEq(a, b) == ~IsNaN(a) /\ ~IsNaN(b) /\ a = b

\* a > 0.0
FPositive(a) == a.cls = "inf" \/ (a.cls = "fin" /\ a.v > 0)

FNeg(a) ==
    CASE a.cls = "nan" -> NaN
      [] a.cls = "inf" -> NegInf
      [] a.cls = "ninf" -> PosInf
      [] OTHER -> [cls |-> "fin", v |-> -a.v]

FAdd(a, b) ==
    CASE IsNaN(a) \/ IsNaN(b) -> NaN
      [] IsFinite(a) /\ IsFinite(b) -> Fin(a.v + b.v)
      [] IsFinite(a) -> b
      [] IsFinite(b) -> a
      [] a = b -> a
      [] OTHER -> NaN

FSub(a, b) == FAdd(a, FNeg(b))

\* The sign of a non-NaN value: -1, 0 or 1.
FSign(a) ==
    CASE a.cls = "inf" -> 1
      [] a.cls = "ninf" -> -1
      [] OTHER -> IF a.v > 0 THEN 1 ELSE IF a.v < 0 THEN -1 ELSE 0

FMul(a, b) ==
    CASE IsNaN(a) \/ IsNaN(b) -> NaN
      [] IsFinite(a) /\ IsFinite(b) ->
            Fin(Sign(a.v * b.v) * RoundDiv(Abs(a.v * b.v), Scale))
      [] FSign(a) * FSign(b) = 0 -> NaN
      [] FSign(a) * FSign(b) > 0 -> PosInf
      [] OTHER -> NegInf

FDiv(a, b) ==
    CASE IsNaN(a) \/ IsNaN(b) -> NaN
      [] ~IsFinite(a) /\ ~IsFinite(b) -> NaN
      [] ~IsFinite(b) -> Fin(0)
      [] ~IsFinite(a) -> IF FSign(a) * Sign(b.v) > 0 THEN PosInf ELSE NegInf
      [] b.v = 0 -> IF a.v = 0 THEN NaN
                    ELSE IF a.v > 0 THEN PosInf ELSE NegInf
      [] OTHER -> Fin(Sign(a.v) * Sign(b.v) * RoundDiv(Abs(a.v) * Scale, Abs(b.v)))

\* f64::powi(2)
FSquare(a) == FMul(a, a)

\* The largest r with r * r <= n, found bit by bit from 2^bit down.
RECURSIVE ISqrtFrom(_, _, _)
ISqrtFrom(n, r, bit) ==
    IF bit < 0 THEN r
    ELSE IF r + 2 ^ bit <= 46340 /\ (r + 2 ^ bit) * (r + 2 ^ bit) <= n
    THEN ISqrtFrom(n, r + 2 ^ bit, bit - 1)
    ELSE ISqrtFrom(n, r, bit - 1)

\* sqrt(n) rounded to the nearest integer.
RoundRoot(n, r) == IF n - r * r > r THEN r + 1 ELSE r

ISqrt(n) == RoundRoot(n, ISqrtFrom(n, 0, 15))

FSqrt(a) ==
    CASE IsNaN(a) -> NaN
      [] a.cls = "ninf" -> NaN
      [] a.cls = "inf" -> PosInf
      [] a.v < 0 -> NaN
      [] OTHER -> Fin(ISqrt(a.v * Scale))

\* ln(2) in LnOne units.
Ln2Fixed == RoundDiv(69315 * LnOne, 100000)

\* 2 * atanh(z) = ln((1 + z) / (1 - z)) by its series, z in LnOne units, |z| <= 1/3.
RECURSIVE AtanhTerms(_, _, _)
AtanhTerms(zk, z2, k) ==
    IF k > 9 THEN 0
    ELSE RoundDiv(zk, k) + AtanhTerms(RoundDiv(zk * z2, LnOne), z2, k + 2)

LnSeries(z) == 2 * AtanhTerms(z, RoundDiv(z * z, LnOne), 1)

\* ln of the positive value v / Scale, in LnOne units: v = m * 2^k with m in
\* [1, 2), ln v = k ln 2 + ln m.
LnOfMantissa(v, b) ==
    (b - 1 - FracBits) * Ln2Fixed
    + LnSeries(RoundDiv((v - 2 ^ (b - 1)) * LnOne, v + 2 ^ (b - 1)))

LnFixed(v) == LnOfMantissa(v, BitLen(v))

\* f64::ln
\* The f64 nearest to l / LnOne.
FromLnFixed(l) == Fin(Sign(l) * RoundDiv(Abs(l) * Scale, LnOne))

\* ln of a positive finite value whose v has b bits.
LnOfBits(v, b) ==
    IF b > MantBits
    THEN FromLnFixed((b - MantBits) * Ln2Fixed + LnFixed(v \div (2 ^ (b - MantBits))))
    ELSE FromLnFixed(LnFixed(v))

FLn(a) ==
    CASE IsNaN(a) -> NaN
      [] a.cls = "ninf" -> NaN
      [] a.cls = "inf" -> PosInf
      [] a.v < 0 -> NaN
      [] a.v = 0 -> NegInf
      [] OTHER -> LnOfBits(a.v, BitLen(a.v))

\* f64::consts::LN_2
LN_2 == Fin(RoundDiv(Ln2Fixed * Scale, LnOne))

\* usize as f64, and the literals 1.0, 4.0
FromInt(n) == Fin(n * Scale)

\* ------------------------------------------------------------------ parsing
\* A JSON string is a sequence of one-character strings.
IsDigit(c) == c \in {"0", "1", "2", "3", "4", "5", "6", "7", "8", "9"}

DigitVal(c) ==
    CASE c = "0" -> 0 [] c = "1" -> 1 [] c = "2" -> 2 [] c = "3" -> 3 [] c = "4" -> 4
      [] c = "5" -> 5 [] c = "6" -> 6 [] c = "7" -> 7 [] c = "8" -> 8 [] c = "9" -> 9

RECURSIVE DigitsValue(_, _)
DigitsValue(s, acc) ==
    IF s = <<>> THEN acc ELSE DigitsValue(Tail(s), 10 * acc + DigitVal(Head(s)))

AllDigits(s) == \A i \in 1..Len(s) : IsDigit(s[i])

HasSign(s) == s # <<>> /\ s[1] \in {"+", "-"}

Unsigned(s) == IF HasSign(s) THEN Tail(s) ELSE s

Ok(val) == [tag |-> "Ok", val |-> val]

Err == [tag |-> "Err", val |-> 0]

Panic == [tag |-> "panic", val |-> 0]

\* str::parse::<i64>: an optional sign, then one or more digits.
ParseI64(s) ==
    IF Unsigned(s) # <<>> /\ AllDigits(Unsigned(s))
    THEN Ok((IF HasSign(s) /\ s[1] = "-" THEN -1 ELSE 1) * DigitsValue(Unsigned(s), 0))
    ELSE Err

LowerCase(c) ==
    CASE c = "I" -> "i" [] c = "N" -> "n" [] c = "F" -> "f" [] c = "A" -> "a"
      [] c = "T" -> "t" [] c = "Y" -> "y" [] OTHER -> c

\* The characters of s before its first "." (all of s when it has none).
RECURSIVE IntPart(_)
IntPart(s) ==
    IF s = <<>> \/ Head(s) = "." THEN <<>> ELSE <<Head(s)>> \o IntPart(Tail(s))

\* The characters of s after the "." that follows its first n characters.
FracPart(s, n) == IF n < Len(s) THEN SubSeq(s, n + 2, Len(s)) ELSE <<>>

\* A decimal number from the digits before and after its ".".
ParseDecimal(int, frac) ==
    IF AllDigits(int) /\ AllDigits(frac) /\ Len(int) + Len(frac) >= 1
    THEN Ok(FromRatio(DigitsValue(int \o frac, 0), 10 ^ Len(frac)))
    ELSE Err

\* An unsigned f64 literal: inf, infinity or nan in any case, or a decimal
\* number. (No model input carries an exponent.)
ParseUnsignedF64(s, low) ==
    IF low \in {<<"i", "n", "f">>, <<"i", "n", "f", "i", "n", "i", "t", "y">>}
    THEN Ok(PosInf)
    ELSE IF low = <<"n", "a", "n">> THEN Ok(NaN)
    ELSE ParseDecimal(IntPart(s), FracPart(s, Len(IntPart(s))))

Negated(parsed) == IF parsed.tag = "Ok" THEN Ok(FNeg(parsed.val)) ELSE parsed

\* str::parse::<f64>: an optional sign, then the literal.
ParseF64(s) ==
    IF HasSign(s) /\ s[1] = "-"
    THEN Negated(ParseUnsignedF64(Tail(s), [i \in 1..Len(s) - 1 |-> LowerCase(s[i + 1])]))
    ELSE IF HasSign(s)
    THEN ParseUnsignedF64(Tail(s), [i \in 1..Len(s) - 1 |-> LowerCase(s[i + 1])])
    ELSE ParseUnsignedF64(s, [i \in 1..Len(s) |-> LowerCase(s[i])])

\* fn parse_f64: the field as a String, parsed; a parse error becomes a
\* deserialization error.
parse_f64(field) == ParseF64(field)

\* ------------------------------------------------------------------ candles
\* chrono::DateTime<Utc>: whole seconds since the epoch and the nanoseconds
\* within the second.
\* DateTime::from_timestamp_millis, for a value within chrono's range.
DateTimeFromMillis(ms) == [secs |-> ms \div 1000, nanos |-> (ms % 1000) * 1000000]

\* DateTime::timestamp_millis
timestamp_millis(dt) == dt.secs * 1000 + dt.nanos \div 1000000

\* struct CandleData
CandleData(start, open, high, low, close, volume, turnover) ==
    [start |-> start, open |-> open, high |-> high, low |-> low,
     close |-> close, volume |-> volume, turnover |-> turnover]

\* DateTime::from_timestamp_millis: None outside chrono's range.
from_timestamp_millis(ms) ==
    IF Abs(ms) <= MaxMillis THEN Ok(DateTimeFromMillis(ms)) ELSE Err

\* Option::unwrap
Unwrap(option) == IF option.tag = "Ok" THEN option ELSE Panic

\* parse_datetime from the outcome of s.parse::<i64>(): an error becomes a
\* deserialization error, a value goes to from_timestamp_millis(..).unwrap().
DateTimeOf(timestamp_num) ==
    IF timestamp_num.tag # "Ok" THEN Err
    ELSE Unwrap(from_timestamp_millis(timestamp_num.val))

\* fn parse_datetime
parse_datetime(field) == DateTimeOf(ParseI64(field))

\* The tag of the first element of rs that is not Ok ("Ok" when all are).
FirstFailure(rs) ==
    IF \A i \in 1..Len(rs) : rs[i].tag = "Ok" THEN "Ok"
    ELSE rs[CHOOSE i \in 1..Len(rs) :
                /\ rs[i].tag # "Ok"
                /\ \A l \in 1..(i - 1) : rs[l].tag = "Ok"].tag

\* Element j of a raw candle through its field's deserializer.
CandleField(raw, j) ==
    IF j > Len(raw) THEN Err
    ELSE IF j = 1 THEN parse_datetime(raw[j])
    ELSE IF j <= 5 THEN parse_f64(raw[j])
    ELSE Ok(raw[j])

\* A candle from its seven deserialized fields; n is the raw array's length.
CandleOf(fields, n) ==
    IF FirstFailure(fields) # "Ok" THEN [tag |-> FirstFailure(fields), val |-> 0]
    ELSE IF n > 7 THEN Err
    ELSE Ok(CandleData(fields[1].val, fields[2].val, fields[3].val, fields[4].val,
                       fields[5].val, fields[6].val, fields[7].val))

\* #[derive(Deserialize)] on CandleData, from a JSON array: the fields are read
\* in declaration order, the first failure ends the read, and an array with
\* fewer or more than seven elements is an error.
DeserializeCandle(raw) == CandleOf([j \in 1..7 |-> CandleField(raw, j)], Len(raw))

\* A BybitResponse from its deserialized candles.
ResponseOf(body, candles) ==
    IF FirstFailure(candles) # "Ok" THEN [tag |-> FirstFailure(candles), val |-> 0]
    ELSE Ok([retCode |-> body.retCode, retMsg |-> body.retMsg,
             list |-> [i \in 1..Len(candles) |-> candles[i].val]])

\* serde_json::from_str::<BybitResponse>: Err for a body that is not JSON or
\* not of the expected shape, Err or a panic from the first candle that fails.
from_str(body) ==
    IF body.kind # "json" THEN Err
    ELSE ResponseOf(body, [i \in 1..Len(body.list) |-> DeserializeCandle(body.list[i])])

\* ---------------------------------------------------------------- estimator
\* Mutant of ParkinsonTerm: the logarithms added instead of subtracted.
ParkinsonTermSum(k) == FSquare(FAdd(FLn(k.high), FLn(k.low)))

\* Mutant of ParkinsonTerm: the range taken from close instead of high.
ParkinsonTermClose(k) == FSquare(FSub(FLn(k.close), FLn(k.low)))

\* |k| (k.high.ln() - k.low.ln()).powi(2)
ParkinsonTerm(k) == FSquare(FSub(FLn(k.high), FLn(k.low)))

\* Mutant of IterSum: the accumulator overwritten by each term, not added to.
IterLast(terms, acc) == IF terms = <<>> THEN acc ELSE terms[Len(terms)]

\* Iterator::sum::<f64>(): a left fold of + from 0.0.
RECURSIVE IterSum(_, _)
IterSum(terms, acc) ==
    IF terms = <<>> THEN acc
    ELSE IterSum(Tail(terms), FAdd(acc, Head(terms)))

\* fn calculate_parkinson(klines: Vec<CandleData>) -> f64
calculate_parkinson(klines) ==
    LET sum == IterSum([i \in 1..Len(klines) |-> ParkinsonTerm(klines[i])], FromInt(0))
        coefficient == FDiv(FromInt(1),
                            FMul(FMul(FromInt(4), FromInt(Len(klines))), LN_2))
        time_series_vol == FSqrt(FMul(coefficient, sum))
    IN  FMul(time_series_vol, FSqrt(FromRatio(36525, 100)))

\* ------------------------------------------------------------------ fetcher
\* Mutant of StatusOk: the assert! on retMsg left out.
StatusCodeOnly(response) == response.retCode = 0

\* assert!(response.retCode == 0); assert!(response.retMsg == "OK".to_string());
StatusOk(response) == response.retCode = 0 /\ response.retMsg = "OK"

\* fetch_ohlc from the outcome of from_str: .unwrap(), the two assert!s,
\* Ok(response.result.list).
Checked(response) ==
    IF response.tag = "Err" THEN [ret |-> "panic", cause |-> "parse", list |-> <<>>]
    ELSE IF response.tag = "panic"
    THEN [ret |-> "panic", cause |-> "timestamp", list |-> <<>>]
    ELSE IF ~StatusOk(response.val)
    THEN [ret |-> "panic", cause |-> "status", list |-> <<>>]
    ELSE [ret |-> "Ok", cause |-> "none", list |-> response.val.list]

\* async fn fetch_ohlc, from what the upstream answered: Err(e) on a transport
\* error (the two ?), a panic from from_str(..).unwrap(), from the unwrap in
\* parse_datetime or from an assert!, else Ok(response.result.list).
fetch_ohlc(u) ==
    IF u.net # "ok" THEN [ret |-> "Err", cause |-> "transport", list |-> <<>>]
    ELSE Checked(from_str(u.body))

\* ------------------------------------------------------------ window sweep
\* Mutant of windows: the last window left out.
RECURSIVE windows_short(_, _)
windows_short(v, size) ==
    IF size >= Len(v) THEN <<>>
    ELSE <<SubSeq(v, 1, size)>> \o windows_short(Tail(v), size)

\* Mutant of windows: a shorter remainder kept as a window, as chunks does.
RECURSIVE windows_partial(_, _)
windows_partial(v, size) ==
    IF v = <<>> THEN <<>>
    ELSE IF size > Len(v) THEN <<v>>
    ELSE <<SubSeq(v, 1, size)>> \o windows_partial(Tail(v), size)

\* slice::windows(size): every run of size consecutive elements, none when
\* the slice is shorter.
RECURSIVE windows(_, _)
windows(v, size) ==
    IF size > Len(v) THEN <<>>
    ELSE <<SubSeq(v, 1, size)>> \o windows(Tail(v), size)

\* Mutant of WindowStamp: the window's first candle instead of its last.
WindowStampFirst(window) == timestamp_millis(window[1].start)

\* window.last().unwrap().start.timestamp_millis()
WindowStamp(window) == timestamp_millis(window[Len(window)].start)

\* .map(|window| (stamp, calculate_parkinson(window.to_vec()))).collect()
Sweep(ws) == [k \in 1..Len(ws) |-> <<WindowStamp(ws[k]), calculate_parkinson(ws[k])>>]

\* data.windows(7).map(..).collect()
RollingVol(data) == Sweep(windows(data, WINDOW))

\* serde_json's f64: a number when finite, null otherwise.
JsonF64(a) == IF IsFinite(a) THEN [json |-> "number", v |-> a.v]
              ELSE [json |-> "null", v |-> 0]

\* serde_json::to_string(&rolling_vol).unwrap()
to_string(rolling_vol) ==
    [k \in 1..Len(rolling_vol) |-> <<rolling_vol[k][1], JsonF64(rolling_vol[k][2])>>]

\* The length of every window the sweep hands to calculate_parkinson.
Calls(ws) == [k \in 1..Len(ws) |-> Len(ws[k])]

\* The handler's end: Html(serde_json::to_string(&rolling_vol).unwrap())
Replied(fetched, rolling_vol) ==
    [status |-> "200", fetched |-> fetched, data |-> fetched.list, computed |-> TRUE,
     rolling_vol |-> rolling_vol, body |-> to_string(rolling_vol),
     calls |-> Calls(windows(fetched.list, WINDOW))]

\* Mutant of Unwrapped: unwrap_or_default, a failed fetch taken as no candles.
UnwrappedOrDefault(fetched) ==
    Replied([fetched EXCEPT !.list = <<>>], RollingVol(<<>>))

\* fetch_ohlc(..).await.unwrap(): the handler goes on with Ok's list and
\* panics otherwise.
Unwrapped(fetched) ==
    IF fetched.ret # "Ok"
    THEN [status |-> "panic", fetched |-> fetched, data |-> <<>>, computed |-> FALSE,
          rolling_vol |-> <<>>, body |-> <<>>, calls |-> <<>>]
    ELSE Replied(fetched, RollingVol(fetched.list))

\* async fn fetch_rolling_volatility from the point its fetch resolves with
\* the answer u: the unwrap, the sweep, the serialization, the reply.
fetch_rolling_volatility(u) == Unwrapped(fetch_ohlc(u))

\* -------------------------------------------------------------------- state
VARIABLES
    pc,         \* per request: where its handler stands
    fetches,    \* per request: upstream GETs issued
    upstream,   \* per request: what the upstream answered
    result,     \* per request: what the handler did with the answer
    est_pc, est_win, est_other, est_rel, est_vol, est_vol_other

srv_vars == <<pc, fetches, upstream, result>>

est_vars == <<est_pc, est_win, est_other, est_rel, est_vol, est_vol_other>>

vars == <<srv_vars, est_vars>>

\* ---------------------------------------------------------------- upstream
DigitChar(d) ==
    CASE d = 0 -> "0" [] d = 1 -> "1" [] d = 2 -> "2" [] d = 3 -> "3" [] d = 4 -> "4"
      [] d = 5 -> "5" [] d = 6 -> "6" [] d = 7 -> "7" [] d = 8 -> "8" [] d = 9 -> "9"

\* The decimal string of n, as the upstream writes a timestamp.
RECURSIVE Decimal(_)
Decimal(n) ==
    IF n < 0 THEN <<"-">> \o Decimal(-n)
    ELSE IF n < 10 THEN <<DigitChar(n)>>
    ELSE Decimal(n \div 10) \o <<DigitChar(n % 10)>>

\* One raw candle: [start, open, high, low, close, volume, turnover].
RawCandle(start, high, low) == <<start, low, high, low, high, <<"5">>, <<"9">>>>

TrendHigh(i) ==
    CASE i % 3 = 1 -> <<"1", ".", "2", "5">> [] i % 3 = 2 -> <<"2">> [] OTHER -> <<"8">>

\* Oldest first, one candle a second from -1500 ms on, the range varying.
TrendList(n) == [i \in 1..n |-> RawCandle(Decimal(1000 * i - 2500), TrendHigh(i), <<"1">>)]

\* Every candle with high = low.
FlatList(n) == [i \in 1..n |-> RawCandle(Decimal(1000 * i), <<"1", "0", "0">>, <<"1", "0", "0">>)]

\* Newest first, as the kline endpoint orders its list: the highs and lows of
\* TrendList, every other field different.
NewestFirst(n) ==
    [i \in 1..n |-> <<Decimal(1000 * (n + 1 - i)), TrendHigh(i), TrendHigh(i), <<"1">>,
                      <<"1">>, <<"7">>, <<>>>>]

NoBody == [kind |-> "none", retCode |-> 0, retMsg |-> "", list |-> <<>>]

JsonBody(retCode, retMsg, list) ==
    [kind |-> "json", retCode |-> retCode, retMsg |-> retMsg, list |-> list]

\* Bodies with status 0 / "OK" whose candles all deserialize.
GoodBodies ==
    {JsonBody(0, "OK", TrendList(n)) : n \in 0..MaxLen}
    \cup { JsonBody(0, "OK", FlatList(WINDOW)),
           JsonBody(0, "OK", NewestFirst(MaxLen)),
           JsonBody(0, "OK", [TrendList(MaxLen) EXCEPT ![2][4] = <<"0">>]),
           JsonBody(0, "OK", [TrendList(MaxLen) EXCEPT ![1][3] = <<"-", "1">>]) }

\* Bodies that are not JSON, not of the expected shape, or carry a candle that
\* does not deserialize.
BrokenBodies ==
    { [NoBody EXCEPT !.kind = "garbage"],
      JsonBody(0, "OK", [TrendList(WINDOW) EXCEPT ![3][2] = <<"a", "b", "c">>]),
      JsonBody(0, "OK", <<SubSeq(TrendList(1)[1], 1, 6)>>),
      JsonBody(0, "OK", <<RawCandle(Decimal(MaxMillis + 1), <<"2">>, <<"1">>)>>) }

\* Bodies the upstream marks as failed.
FailedBodies ==
    { JsonBody(10001, "params error", <<>>),
      JsonBody(10001, "OK", TrendList(WINDOW)),
      JsonBody(0, "error", TrendList(WINDOW)) }

Bodies == GoodBodies \cup BrokenBodies \cup FailedBodies

Answer(net, body) == [net |-> net, body |-> body]

NoAnswer == Answer("none", NoBody)

\* Every answer a fetch can resolve with.
Answers ==
    {Answer("get_err", NoBody), Answer("text_err", NoBody)}
    \cup {Answer("ok", body) : body \in Bodies}

\* The handler's outcome for every answer (the handler is a function of it).
Handled == [u \in Answers |-> fetch_rolling_volatility(u)]

NoResult ==
    [status |-> "none", fetched |-> [ret |-> "pending", cause |-> "none", list |-> <<>>],
     data |-> <<>>, computed |-> FALSE, rolling_vol |-> <<>>, body |-> <<>>,
     calls |-> <<>>]

Reqs == 1..NReq

\* ------------------------------------------------------------------ server
\* A handler future's own local: request r's slot of f becomes v.
Bind(f, r, v) == [f EXCEPT ![r] = v]

\* Request r ends with the answer u and the handler's outcome res.
Complete(r, u, res) ==
    /\ upstream' = Bind(upstream, r, u)
    /\ result' = Bind(result, r, res)
    /\ pc' = Bind(pc, r, IF res.status = "200" THEN "replied" ELSE "panicked")
    /\ UNCHANGED <<fetches, est_vars>>

\* Mutant of Resume: a cache shared by the requests, a reply already sent
\* served again instead of the handler's own outcome.
ResumeCached(r, u) ==
    IF \E q \in Reqs : result[q].status = "200"
    THEN Complete(r, u, result[CHOOSE q \in Reqs : result[q].status = "200"])
    ELSE Complete(r, u, Handled[u])

\* The handler resumes with the answer u and runs to its end: no await is left.
Resume(r, u) == Complete(r, u, Handled[u])

\* GET /rolling_volatility arrives: the handler runs to reqwest::get(&url).await.
HandleRequest(r) ==
    /\ pc[r] = "idle"
    /\ pc' = Bind(pc, r, "get")
    /\ fetches' = Bind(fetches, r, fetches[r] + 1)
    /\ UNCHANGED <<upstream, result, est_vars>>

\* reqwest::get(&url).await? resolves: the response's head, or a transport error.
GetResolves(r) ==
    /\ pc[r] = "get"
    /\ \/ /\ pc' = Bind(pc, r, "text")
          /\ UNCHANGED <<fetches, upstream, result, est_vars>>
       \/ Resume(r, Answer("get_err", NoBody))

\* .text().await? resolves: the body, or a transport error.
TextResolves(r) ==
    /\ pc[r] = "text"
    /\ \/ \E body \in Bodies : Resume(r, Answer("ok", body))
       \/ Resume(r, Answer("text_err", NoBody))

EstOff ==
    /\ est_pc = "off"
    /\ est_win = <<>>
    /\ est_other = <<>>
    /\ est_rel = "none"
    /\ est_vol = NaN
    /\ est_vol_other = NaN

Init ==
    /\ pc = [r \in Reqs |-> "idle"]
    /\ fetches = [r \in Reqs |-> 0]
    /\ upstream = [r \in Reqs |-> NoAnswer]
    /\ result = [r \in Reqs |-> NoResult]
    /\ EstOff

Next == \E r \in Reqs : HandleRequest(r) \/ GetResolves(r) \/ TextResolves(r)

Spec == Init /\ [][Next]_vars

\* ------------------------------------------- the estimator on its own
\* The (high, low) pairs the windows are drawn from.
EstPairs ==
    { <<FromInt(8), FromInt(1)>>, <<FromRatio(5, 4), FromInt(1)>>,
      <<FromInt(2), FromInt(2)>>, <<PosInf, PosInf>>,
      <<FromInt(1), FromInt(0)>>, <<FromInt(-1), FromInt(1)>> }

EstCandle(hl) ==
    CandleData(DateTimeFromMillis(1000), hl[2], hl[1], hl[2], hl[1], <<"5">>, <<"9">>)

EstWindows ==
    UNION { [1..n -> {EstCandle(hl) : hl \in EstPairs}] : n \in 1..MaxWin }

\* The window with every field but high and low replaced.
Reframed(w, variant) ==
    [i \in 1..Len(w) |->
        CandleData(DateTimeFromMillis(variant * i - 1500), FromInt(variant),
                   w[i].high, w[i].low, FromInt(variant + i), <<"7">>, <<>>)]

EstInit ==
    /\ est_pc = "drawn"
    /\ est_win \in EstWindows
    /\ est_other = <<>>
    /\ est_rel = "none"
    /\ est_vol = NaN
    /\ est_vol_other = NaN
    /\ pc = [r \in Reqs |-> "off"]
    /\ fetches = [r \in Reqs |-> 0]
    /\ upstream = [r \in Reqs |-> NoAnswer]
    /\ result = [r \in Reqs |-> NoResult]

\* A second window: a permutation of the first.
EstPermute ==
    /\ est_pc = "drawn"
    /\ \E p \in Permutations(1..Len(est_win)) :
          est_other' = [i \in 1..Len(est_win) |-> est_win[p[i]]]
    /\ est_rel' = "permuted"
    /\ est_pc' = "paired"
    /\ UNCHANGED <<est_win, est_vol, est_vol_other, srv_vars>>

\* A second window: the same highs and lows, everything else different.
EstReframe ==
    /\ est_pc = "drawn"
    /\ \E variant \in 2..3 : est_other' = Reframed(est_win, variant)
    /\ est_rel' = "reframed"
    /\ est_pc' = "paired"
    /\ UNCHANGED <<est_win, est_vol, est_vol_other, srv_vars>>

\* calculate_parkinson applied to both windows.
EstApply ==
    /\ est_pc = "paired"
    /\ est_vol' = calculate_parkinson(est_win)
    /\ est_vol_other' = calculate_parkinson(est_other)
    /\ est_pc' = "estimated"
    /\ UNCHANGED <<est_win, est_other, est_rel, srv_vars>>

EstNext == EstPermute \/ EstReframe \/ EstApply

EstSpec == EstInit /\ [][EstNext]_vars

\* ------------------------------------------------------------------ claims
Done(r) == pc[r] \in {"replied", "panicked"}

Max0(n) == IF n < 0 THEN 0 ELSE n

\* C1: a reply's series has exactly max(0, L - 7 + 1) points, L the number of
\* candles the upstream listed, in the handler's vector and in the JSON it sends.
C1_WindowCount ==
    \A r \in Reqs :
        pc[r] = "replied" =>
            /\ Len(result[r].data) = Len(upstream[r].body.list)
            /\ Len(result[r].rolling_vol) = Max0(Len(result[r].data) - WINDOW + 1)
            /\ Len(result[r].body) = Max0(Len(result[r].data) - WINDOW + 1)

C1_Witness ==
    \E r \in Reqs :
        /\ pc[r] = "replied"
        /\ Len(result[r].data) > WINDOW
        /\ Len(result[r].rolling_vol) = Len(result[r].data) - WINDOW + 1

\* The start of candle i of request r's data, in milliseconds.
StartMillis(r, i) == timestamp_millis(result[r].data[i].start)

Increasing(r) ==
    \A i \in 1..(Len(result[r].data) - 1) : StartMillis(r, i) < StartMillis(r, i + 1)

\* C2: point k (from 0) of a reply is the start of candle 7 - 1 + k, the last
\* of its window, with the estimate over candles k .. k + 6; the JSON carries
\* the same timestamps in the same order, and they increase strictly whenever
\* the candles' do.
C2_PointPerWindow ==
    \A r \in Reqs :
        pc[r] = "replied" =>
            /\ \A k \in 0..(Len(result[r].data) - WINDOW) :
                  /\ k + 1 <= Len(result[r].rolling_vol)
                  /\ result[r].rolling_vol[k + 1] =
                        <<StartMillis(r, WINDOW + k),
                          calculate_parkinson(SubSeq(result[r].data, k + 1, k + WINDOW))>>
                  /\ result[r].body[k + 1][1] = StartMillis(r, WINDOW + k)
            /\ Increasing(r) =>
                  \A k \in 1..(Len(result[r].body) - 1) :
                      result[r].body[k][1] < result[r].body[k + 1][1]

C2_Witness ==
    \E r \in Reqs :
        /\ pc[r] = "replied"
        /\ Increasing(r)
        /\ Len(result[r].body) >= 2
        /\ result[r].body[2][1] = StartMillis(r, WINDOW + 1)
        /\ StartMillis(r, 1) < 0

\* The upstream answered request r with a response that is JSON of the
\* expected shape and whose status is not 0 / "OK".
StatusFailed(r) ==
    /\ upstream[r].net = "ok"
    /\ upstream[r].body.kind = "json"
    /\ (upstream[r].body.retCode # 0 \/ upstream[r].body.retMsg # "OK")

\* C3: a response whose retCode is not 0 or whose retMsg is not "OK" ends
\* fetch_ohlc in a failure that reaches its caller, and no candle list comes
\* back: not the response's, not an empty one.
C3_StatusFailureSurfaces ==
    \A r \in Reqs :
        Done(r) /\ StatusFailed(r) =>
            /\ result[r].fetched.ret \in {"Err", "panic"}
            /\ result[r].fetched.list = <<>>
            /\ result[r].data = <<>>
            /\ ~result[r].computed
            /\ pc[r] = "panicked"

C3_Witness ==
    \E r \in Reqs :
        /\ Done(r)
        /\ upstream[r].body.kind = "json"
        /\ upstream[r].body.retCode = 0
        /\ upstream[r].body.retMsg # "OK"
        /\ upstream[r].body.list # <<>>
        /\ result[r].fetched.cause = "status"

\* C4: a fetch that succeeds with fewer than 7 candles, none included, ends in
\* a normal reply with an empty series, and no window (so no empty one) goes to
\* the estimator; no reply ever rests on an estimate of an empty window.
C4_ShortDataEmptySeries ==
    \A r \in Reqs :
        /\ Done(r) /\ result[r].fetched.ret = "Ok" /\ Len(result[r].fetched.list) < WINDOW =>
              /\ pc[r] = "replied"
              /\ result[r].status = "200"
              /\ result[r].rolling_vol = <<>>
              /\ result[r].body = <<>>
              /\ result[r].calls = <<>>
        /\ \A k \in 1..Len(result[r].calls) : result[r].calls[k] >= 1

C4_Witness ==
    \E r, q \in Reqs :
        /\ pc[r] = "replied" /\ pc[q] = "replied"
        /\ Len(result[r].data) = WINDOW - 1
        /\ result[r].body = <<>>
        /\ Len(upstream[q].body.list) = 0
        /\ result[q].body = <<>>

\* The fetch of request r cannot succeed: a transport error, a body that is
\* not JSON, or a status that is not 0 / "OK".
FetchFails(r) ==
    \/ upstream[r].net \in {"get_err", "text_err"}
    \/ upstream[r].net = "ok" /\ upstream[r].body.kind # "json"
    \/ StatusFailed(r)

\* C5: a request issues one upstream GET, never a second; the sweep runs only
\* after fetch_ohlc returned Ok; and a fetch that fails ends the request there:
\* no sweep, no estimate, no series in reply.
C5_OneFetchThenCompute ==
    \A r \in Reqs :
        /\ fetches[r] <= 1
        /\ pc[r] # "idle" => fetches[r] = 1
        /\ result[r].computed => Done(r) /\ result[r].fetched.ret = "Ok"
        /\ result[r].calls # <<>> => result[r].computed
        /\ Done(r) /\ (FetchFails(r) \/ result[r].fetched.ret # "Ok") =>
              /\ pc[r] = "panicked"
              /\ result[r].fetched.ret # "Ok"
              /\ ~result[r].computed
              /\ result[r].status = "panic"
              /\ result[r].rolling_vol = <<>>
              /\ result[r].body = <<>>
              /\ result[r].calls = <<>>

C5_Witness ==
    \E r, q \in Reqs :
        /\ pc[r] = "panicked" /\ result[r].fetched.cause = "transport" /\ fetches[r] = 1
        /\ pc[q] = "replied" /\ result[q].computed /\ fetches[q] = 1

\* a <= 0.0
NonPositive(a) == a.cls = "ninf" \/ (a.cls = "fin" /\ a.v <= 0)

\* Window k of request r's data holds a candle whose high or low is <= 0.
BadWindow(r, k) ==
    \E i \in k..(k + WINDOW - 1) :
        NonPositive(result[r].data[i].high) \/ NonPositive(result[r].data[i].low)

\* C6, as claimed: a window with a candle whose high or low is zero or
\* negative makes the estimation fail, so no reply is built from such a window
\* and every volatility in a reply is a finite number.
C6_NonPositiveIsFatal ==
    \A r \in Reqs :
        pc[r] = "replied" =>
            /\ \A k \in 1..Len(result[r].rolling_vol) : ~BadWindow(r, k)
            /\ \A k \in 1..Len(result[r].rolling_vol) :
                  /\ IsFinite(result[r].rolling_vol[k][2])
                  /\ result[r].body[k][2].json = "number"

\* C7: a request's outcome is the handler's function of the answer to its own
\* fetch, whatever the other requests got and however their steps interleave,
\* and a step of one request changes nothing another request holds.
C7_RequestsIndependent ==
    /\ [](\A r \in Reqs :
            /\ Done(r) => result[r] = fetch_rolling_volatility(upstream[r]) /\ fetches[r] = 1
            /\ ~Done(r) => result[r] = NoResult /\ upstream[r] = NoAnswer)
    /\ [][\A r \in Reqs :
            pc'[r] = pc[r] =>
                /\ result'[r] = result[r]
                /\ upstream'[r] = upstream[r]
                /\ fetches'[r] = fetches[r]]_vars

C7_Witness ==
    \E r, q \in Reqs :
        /\ pc[r] = "panicked"
        /\ pc[q] = "replied"
        /\ Len(result[q].body) >= 2
        /\ upstream[r] # upstream[q]

\* Two windows of one length whose candles agree pairwise on high and low.
SameRanges(w1, w2) ==
    /\ Len(w1) = Len(w2)
    /\ \A i \in 1..Len(w1) : w1[i].high = w2[i].high /\ w1[i].low = w2[i].low

WindowAt(r, k) == SubSeq(result[r].data, k, k + WINDOW - 1)

\* C10: windows that agree pairwise on high and low get the same estimate,
\* whatever their start, open, close, volume and turnover; and after the sweep
\* the handler's data is the candle sequence the fetch produced.
C10_OnlyHighLowMatter ==
    \A r, q \in Reqs :
        pc[r] = "replied" /\ pc[q] = "replied" =>
            /\ \A k \in 1..Len(result[r].rolling_vol), l \in 1..Len(result[q].rolling_vol) :
                  SameRanges(WindowAt(r, k), WindowAt(q, l)) =>
                      result[r].rolling_vol[k][2] = result[q].rolling_vol[l][2]
            /\ result[r].data = result[r].fetched.list
            /\ result[r].data = from_str(upstream[r].body).val.list

C10_Witness ==
    \E r, q \in Reqs :
        /\ pc[r] = "replied" /\ pc[q] = "replied"
        /\ Len(result[r].rolling_vol) >= 1 /\ Len(result[q].rolling_vol) >= 1
        /\ SameRanges(WindowAt(r, 1), WindowAt(q, 1))
        /\ \A i \in 1..WINDOW :
              /\ result[r].data[i].start # result[q].data[i].start
              /\ result[r].data[i].open # result[q].data[i].open
              /\ result[r].data[i].close # result[q].data[i].close
              /\ result[r].data[i].volume # result[q].data[i].volume
              /\ result[r].data[i].turnover # result[q].data[i].turnover
        /\ IsFinite(result[r].rolling_vol[1][2])
        /\ result[r].rolling_vol[1][2] = result[q].rolling_vol[1][2]

\* Every candle of the window has high == low, and high > 0.
FlatWindow(w) ==
    /\ w # <<>>
    /\ \A i \in 1..Len(w) : FEq(w[i].high, w[i].low) /\ FPositive(w[i].high)

\* C8, as claimed: a non-empty window whose candles all have high == low, with
\* high > 0, is estimated at exactly 0.0.
C8_FlatWindowIsZero ==
    est_pc = "estimated" /\ FlatWindow(est_win) => est_vol = FromInt(0)

\* C8, amended: a non-empty window whose candles all have high == low, with
\* high > 0 and finite, is estimated at exactly 0.0.
C8_FiniteFlatWindowIsZero ==
    est_pc = "estimated" /\ FlatWindow(est_win)
        /\ (\A i \in 1..Len(est_win) : IsFinite(est_win[i].high))
    => est_vol = FromInt(0) /\ FEq(est_vol, FromInt(0))

C8_Witness ==
    /\ est_pc = "estimated"
    /\ Len(est_win) >= 2
    /\ FlatWindow(est_win)
    /\ \A i \in 1..Len(est_win) : IsFinite(est_win[i].high)
    /\ est_vol = FromInt(0)

\* C9, as claimed: every permutation of a window gets the window's estimate.
C9_PermutationInvariant ==
    est_pc = "estimated" /\ est_rel = "permuted" => est_vol = est_vol_other

\* C9, amended: a permutation of a window of at most two candles gets the
\* window's estimate, and a permutation of any window gets an estimate of the
\* same kind (NaN, infinite or finite).
C9_PermutationUpToRounding ==
    est_pc = "estimated" /\ est_rel = "permuted" =>
        /\ Len(est_win) <= 2 => est_vol = est_vol_other
        /\ est_vol.cls = est_vol_other.cls

C9_Witness ==
    /\ est_pc = "estimated"
    /\ est_rel = "permuted"
    /\ Len(est_win) = 2
    /\ est_other # est_win
    /\ IsFinite(est_vol)
    /\ est_vol.v > 0
    /\ est_vol = est_vol_other
=============================================================================
